---- MODULE Spec2Model ----
(***************************************************************************)
(* bitbucket-aws-sg-whitelister.py: one reconciliation pass of main(),     *)
(* from the feed fetch to the Slack notification, together with the EC2    *)
(* security group it reads and mutates.                                    *)
(*                                                                         *)
(* Addresses are AddrBits wide instead of 32; a CIDR string is a record    *)
(* [form, addr, plen] (form "prefix" is "a/p", "bare" is an address with   *)
(* no "/p", "v6" is a string with a ':' in it); a network object, as       *)
(* ipaddress.ip_network returns it, is a record [addr, plen].              *)
(***************************************************************************)
EXTENDS Integers, Sequences, FiniteSets, TLC

\* ---------------------------------------------------------------- bounds
\* width of an address in bits (32 in IPv4)
AddrBits == 8
\* the feed and the security group hold up to AWS_SG_RULE_LIMIT + MaxOver
\* host rules of the bulk block
MaxOver == 1
\* entries of the feed after the bulk block
MaxExtra == 1
\* entries of a feed drawn from CollapsePool
MaxLen == 3

\* ------------------------------------------------------------- constants
AWS_SG_RULE_LIMIT == 60
AWS_SG_RULE_PORT == 443

\* --------------------------------------------------------------- helpers
RECURSIVE Pow2(_)
Pow2(n) == IF n = 0 THEN 1 ELSE 2 * Pow2(n - 1)

ALL_ONES == Pow2(AddrBits) - 1

Min(a, b) == IF a < b THEN a ELSE b

Range(s) == {s[i] : i \in DOMAIN s}

\* the sequence f as an explicit tuple, every element evaluated once
Tuple(f) == SubSeq(f, 1, Len(f))

\* sorted(seq, key=...), key[i] the key of seq[i]: a stable sort; rank[i] is
\* the place of seq[i] in it
Sorted(seq, key) ==
    LET n == Len(seq)
        rank == Tuple([i \in 1..n |-> 1 + Cardinality({j \in 1..n :
                    key[j] < key[i] \/ (key[j] = key[i] /\ j < i)})])
    IN Tuple([r \in 1..n |-> seq[CHOOSE i \in 1..n : rank[i] = r]])

\* sorted(S, key=...) for keyed the pairs <<key of x, x>> of the x in S, whose
\* keys are distinct
SetToSeq(keyed) ==
    LET ranked == {<<1 + Cardinality({q \in keyed : q[1] < p[1]}), p[2]>> : p \in keyed}
    IN Tuple([r \in 1..Cardinality(keyed) |-> (CHOOSE p \in ranked : p[1] = r)[2]])

\* -------------------------------------------------- the ipaddress module
Cidr(form, addr, plen) == [form |-> form, addr |-> addr, plen |-> plen]

\* "a/p" with p = AddrBits: one host
Host(a) == Cidr("prefix", a, AddrBits)

\* ':' in cidr
HasColon(s) == s.form = "v6"

IsValidNetwork_strict_off(s) ==
    /\ s.form \in {"prefix", "bare"}
    /\ s.addr \in 0..ALL_ONES
    /\ s.form = "prefix" => s.plen \in 0..AddrBits

\* ipaddress.ip_network(s) returns (it raises ValueError otherwise): an IPv4
\* address with an optional prefix length, and no host bit set
IsValidNetwork(s) ==
    /\ s.form \in {"prefix", "bare"}
    /\ s.addr \in 0..ALL_ONES
    /\ s.form = "prefix" => /\ s.plen \in 0..AddrBits
                            /\ s.addr % Pow2(AddrBits - s.plen) = 0

ip_network(s) ==
    [addr |-> s.addr, plen |-> IF s.form = "bare" THEN AddrBits ELSE s.plen]

\* str(network)
str(n) == Cidr("prefix", n.addr, n.plen)

supernet(n) ==
    IF n.plen = 0 THEN n
    ELSE LET size == Pow2(AddrBits - n.plen + 1)
         IN [addr |-> (n.addr \div size) * size, plen |-> n.plen - 1]

broadcast_address(n) == n.addr + Pow2(AddrBits - n.plen) - 1

\* the sort key (network_address, prefixlen) as one number; the order of
\* network objects, (network_address, netmask), is the same order
NetKey(n) == n.addr * (AddrBits + 1) + n.plen

\* key=ipaddress.ip_network, on CIDR strings
CidrKey(s) == NetKey(ip_network(s))

RECURSIVE bit_length(_)
bit_length(n) == IF n = 0 THEN 0 ELSE 1 + bit_length(n \div 2)

RECURSIVE count_righthand_zero_bits(_, _)
count_righthand_zero_bits(number, bits) ==
    IF number = 0 \/ bits = 0 THEN bits
    ELSE IF number % 2 = 1 THEN 0
    ELSE 1 + count_righthand_zero_bits(number \div 2, bits - 1)

\* one turn of the loop of _find_address_range(ips) over ips[2..], on the
\* state [i, out, first, last]; i is the index of the next address
find_address_range_step(ips, st) ==
    IF ips[st.i] # st.last + 1
    THEN [i |-> st.i + 1, out |-> Append(st.out, <<st.first, st.last>>),
          first |-> ips[st.i], last |-> ips[st.i]]
    ELSE [st EXCEPT !.i = @ + 1, !.last = ips[st.i]]

\* k turns of the loop (none once ips is exhausted); k is halved so that the
\* evaluation nests in O(log k), the turns in order
RECURSIVE find_address_range_loop(_, _, _)
find_address_range_loop(ips, k, st) ==
    IF k = 0 \/ st.i > Len(ips) THEN st
    ELSE IF k = 1 THEN find_address_range_step(ips, st)
    ELSE find_address_range_loop(ips, k - (k \div 2),
            find_address_range_loop(ips, k \div 2, st))

\* _find_address_range(ips), ips sorted and distinct: the runs of consecutive
\* addresses
find_address_range(ips) ==
    IF ips = <<>> THEN <<>>
    ELSE LET st == find_address_range_loop(ips, Len(ips),
                        [i |-> 2, out |-> <<>>, first |-> ips[1], last |-> ips[1]])
         IN Append(st.out, <<st.first, st.last>>)

RECURSIVE summarize_address_range(_, _)
summarize_address_range(first, last) ==
    IF first > last THEN <<>>
    ELSE LET nbits == Min(count_righthand_zero_bits(first, AddrBits),
                          bit_length(last - first + 1) - 1)
             nxt == first + Pow2(nbits)
         IN <<[addr |-> first, plen |-> AddrBits - nbits]>>
            \o (IF nxt - 1 = ALL_ONES THEN <<>>
                ELSE summarize_address_range(nxt, last))

\* summarize_address_range of ranges[lo..hi], one after the other
RECURSIVE summarize_all(_, _, _)
summarize_all(ranges, lo, hi) ==
    IF lo > hi THEN <<>>
    ELSE IF lo = hi THEN summarize_address_range(ranges[lo][1], ranges[lo][2])
    ELSE LET mid == (lo + hi) \div 2
         IN summarize_all(ranges, lo, mid) \o summarize_all(ranges, mid + 1, hi)

\* a turn that stores the supernet of two merged halves where it should look
\* for the supernet's own sibling, instead of pushing it back on to_merge
merge_step_no_repush(st) ==
    IF st.to_merge = <<>> THEN st
    ELSE LET net == st.to_merge[Len(st.to_merge)]
             rest == SubSeq(st.to_merge, 1, Len(st.to_merge) - 1)
             sup == supernet(net)
             existing == {e \in st.subnets : e[1] = sup}
         IN IF existing = {}
            THEN [to_merge |-> rest, subnets |-> st.subnets \cup {<<sup, net>>}]
            ELSE IF existing # {<<sup, net>>}
                 THEN [to_merge |-> rest,
                       subnets |-> (st.subnets \ existing) \cup {<<supernet(sup), sup>>}]
                 ELSE [to_merge |-> rest, subnets |-> st.subnets]

\* a turn that merges two halves and never merges the result again
merge_step_one_level(st) ==
    IF st.to_merge = <<>> THEN st
    ELSE LET net == st.to_merge[Len(st.to_merge)]
             rest == SubSeq(st.to_merge, 1, Len(st.to_merge) - 1)
             sup == supernet(net)
             existing == {e \in st.subnets : e[1] = sup}
         IN IF existing = {}
            THEN [to_merge |-> rest, subnets |-> st.subnets \cup {<<sup, net>>}]
            ELSE IF existing # {<<sup, net>>}
                 THEN [to_merge |-> rest,
                       subnets |-> (st.subnets \ existing) \cup {<<sup, sup>>}]
                 ELSE [to_merge |-> rest, subnets |-> st.subnets]

\* one turn of the while loop of _collapse_addresses_internal: to_merge is a
\* stack (pop takes its last element), subnets the dict as a set of
\* <<supernet, net>>
merge_step(st) ==
    IF st.to_merge = <<>> THEN st
    ELSE LET net == st.to_merge[Len(st.to_merge)]
             rest == SubSeq(st.to_merge, 1, Len(st.to_merge) - 1)
             sup == supernet(net)
             existing == {e \in st.subnets : e[1] = sup}
         IN IF existing = {}
            THEN [to_merge |-> rest, subnets |-> st.subnets \cup {<<sup, net>>}]
            ELSE IF existing # {<<sup, net>>}
                 THEN [to_merge |-> Append(rest, sup), subnets |-> st.subnets \ existing]
                 ELSE [to_merge |-> rest, subnets |-> st.subnets]

\* k turns of the while loop (none once to_merge is empty)
RECURSIVE merge_loop(_, _)
merge_loop(k, st) ==
    IF k = 0 \/ st.to_merge = <<>> THEN st
    ELSE IF k = 1 THEN merge_step(st)
    ELSE merge_loop(k - (k \div 2), merge_loop(k \div 2, st))

\* a turn that yields every network, also one the last one yielded contains
yield_nets_step_keep_all(nets, st) ==
    [i |-> st.i + 1, out |-> Append(st.out, nets[st.i]), last |-> <<nets[st.i]>>]

\* one turn of the for loop of _collapse_addresses_internal, on the state
\* [i, out, last]: last is <<>> (None) or <<net>>
yield_nets_step(nets, st) ==
    IF st.last # <<>>
       /\ broadcast_address(st.last[1]) >= broadcast_address(nets[st.i])
    THEN [st EXCEPT !.i = @ + 1]
    ELSE [i |-> st.i + 1, out |-> Append(st.out, nets[st.i]), last |-> <<nets[st.i]>>]

\* k turns of the for loop (none once nets is exhausted)
RECURSIVE yield_nets(_, _, _)
yield_nets(nets, k, st) ==
    IF k = 0 \/ st.i > Len(nets) THEN st
    ELSE IF k = 1 THEN yield_nets_step(nets, st)
    ELSE yield_nets(nets, k - (k \div 2), yield_nets(nets, k \div 2, st))

\* every pop but the first Len(addresses) follows a merge, and every merge
\* takes an entry out of subnets: the loop ends within 2 * Len(addresses) turns
collapse_addresses_internal(addresses) ==
    LET merged == merge_loop(2 * Len(addresses),
                             [to_merge |-> addresses, subnets |-> {}])
        nets == SetToSeq({<<NetKey(e[2]), e[2]>> : e \in merged.subnets})
    IN yield_nets(nets, Len(nets), [i |-> 1, out |-> <<>>, last |-> <<>>]).out

\* ipaddress.collapse_addresses(cidr_objs)
collapse_addresses(addresses) ==
    LET ips == SetToSeq({<<n.addr, n.addr>> :
                            n \in {m \in Range(addresses) : m.plen = AddrBits}})
        nets == SelectSeq(addresses, LAMBDA n : n.plen # AddrBits)
        ranges == find_address_range(ips)
        addrs == summarize_all(ranges, 1, Len(ranges))
    IN collapse_addresses_internal(addrs \o nets)

\* ------------------------------------------------------------ the inputs
\* one item of the feed's "items": has is the set of keys the item holds
Item(c, product, direction) ==
    [has |-> {"cidr", "product", "direction"}, cidr |-> c,
     product |-> product, direction |-> direction]

\* an address far from the bulk block; Far + 1 is its sibling
Far == ALL_ONES - 1

\* n Bitbucket egress hosts, no two of them mergeable
BulkItems(n) ==
    Tuple([i \in 1..n |-> Item(Host(2 * (i - 1)), {"bitbucket"}, {"egress"})])

BulkSizes == {0} \cup (AWS_SG_RULE_LIMIT .. (AWS_SG_RULE_LIMIT + MaxOver))

\* what may follow the bulk block: a host that merges with a bulk host, a
\* network that holds two of them, an address with no prefix length, a network
\* with a host bit set, an IPv6 network, another product's network, an item
\* with no "cidr" and an item with no "product"
ExtraEntries ==
    { Item(Host(1), {"bitbucket"}, {"egress"}),
      Item(Cidr("prefix", 0, AddrBits - 2), {"bitbucket"}, {"egress"}),
      Item(Cidr("bare", Far, 0), {"bitbucket", "jira"}, {"egress", "ingress"}),
      Item(Cidr("prefix", 1, AddrBits - 1), {"bitbucket"}, {"egress"}),
      Item(Cidr("v6", 0, 0), {"bitbucket"}, {"egress"}),
      Item(Host(Far), {"jira"}, {"egress"}),
      [Item(Host(Far), {"bitbucket"}, {"egress"}) EXCEPT !.has = {"product", "direction"}],
      [Item(Host(Far), {"bitbucket"}, {"egress"}) EXCEPT !.has = {"cidr", "direction"}] }

RECURSIVE SeqsUpTo(_, _)
SeqsUpTo(S, n) ==
    IF n = 0 THEN {<<>>}
    ELSE LET shorter == SeqsUpTo(S, n - 1)
         IN shorter \cup {Append(s, x) : s \in shorter, x \in S}

\* the documents the feed URL may serve
Feeds ==
    {[has_items |-> TRUE, items |-> BulkItems(n) \o extra] :
        n \in BulkSizes, extra \in SeqsUpTo(ExtraEntries, MaxExtra)}
    \cup {[has_items |-> FALSE, items |-> <<>>]}

Perm(protocol, from, to, ranges) ==
    [IpProtocol |-> protocol, FromPort |-> from, ToPort |-> to, IpRanges |-> ranges]

NonEmptyPerms(perms) == SelectSeq(perms, LAMBDA p : p.IpRanges # {})

\* the rules of the managed rule beside the bulk block (own), and those of a
\* rule of a port range that starts at the same port (range)
OtherRules ==
    { [own |-> {}, range |-> {}],
      [own |-> {Host(Far)}, range |-> {}],
      [own |-> {}, range |-> {Host(Far)}],
      [own |-> {Host(Far)}, range |-> {Host(Far)}],
      [own |-> {}, range |-> {Host(0)}] }

SgBulkSizes == {0, AWS_SG_RULE_LIMIT, AWS_SG_RULE_LIMIT + 1}

\* the security groups the run may find: the rule the script manages, a rule
\* of a port range that starts at the same port, and a rule of another port
SecurityGroups ==
    {NonEmptyPerms(<<Perm("tcp", AWS_SG_RULE_PORT, AWS_SG_RULE_PORT,
                         {Host(2 * (i - 1)) : i \in 1..m} \cup o.own),
                    Perm("tcp", AWS_SG_RULE_PORT, AWS_SG_RULE_PORT + 1, o.range),
                    Perm("tcp", 22, 22, {Host(0)})>>) :
        m \in SgBulkSizes, o \in OtherRules}

\* ------------------------------------------------------------- the state
VARIABLES
    feed,             \* the document IP_FEED_URL serves
    sg,               \* IpPermissions of the security group AWS_SG_ID
    DRY_RUN,
    SLACK_BOT_TOKEN,  \* TRUE iff the token is set
    pc,               \* the position of main()
    data, before_cidrs, after_cidrs, current_cidrs,   \* locals of main()
    to_add, to_remove,                                \* locals of replace_sg_ingress_rules()
    message,          \* "alert" or "success": the message handed to send_slack_alert
    calls,            \* the EC2 mutation calls and Slack posts issued by this run
    exit_at,          \* where the run ended
    exit_status,      \* the process's exit status; -1 while it runs
    prev_exit,        \* where the previous run of the script ended, "" if none
    prev_added,       \* TRUE iff the previous run added rules to the security group
    prev_before_cidrs, prev_after_cidrs   \* what the filter returned in the previous run

vars == <<feed, sg, DRY_RUN, SLACK_BOT_TOKEN, pc, data, before_cidrs, after_cidrs,
          current_cidrs, to_add, to_remove, message, calls, exit_at, exit_status,
          prev_exit, prev_added, prev_before_cidrs, prev_after_cidrs>>

previous == <<prev_exit, prev_added, prev_before_cidrs, prev_after_cidrs>>
config == <<feed, DRY_RUN, SLACK_BOT_TOKEN, previous>>
locals == <<data, before_cidrs, after_cidrs, current_cidrs, to_add, to_remove, message>>

NoData == [has_items |-> FALSE, items |-> <<>>]

StartOfMain ==
    /\ pc = "fetch"
    /\ data = NoData
    /\ before_cidrs = <<>>
    /\ after_cidrs = <<>>
    /\ current_cidrs = <<>>
    /\ to_add = {}
    /\ to_remove = {}
    /\ message = ""
    /\ calls = <<>>
    /\ exit_at = ""
    /\ exit_status = -1

NoPrevious ==
    /\ prev_exit = ""
    /\ prev_added = FALSE
    /\ prev_before_cidrs = <<>>
    /\ prev_after_cidrs = <<>>

Init ==
    /\ feed \in Feeds
    /\ sg \in SecurityGroups
    /\ DRY_RUN \in BOOLEAN
    /\ SLACK_BOT_TOKEN \in BOOLEAN
    /\ NoPrevious
    /\ StartOfMain


\* ------------------------------------------------- the ends of the script
\* sys.exit(arg): arg is <<>> (no argument) or <<status>>
SysExitStatus_nonzero(arg) == IF arg = <<>> THEN 2 ELSE arg[1]

SysExitStatus(arg) == IF arg = <<>> THEN 0 ELSE arg[1]

Ends(at, status) ==
    /\ pc' = "done"
    /\ exit_at' = at
    /\ exit_status' = status

\* an exception that is caught and logged: the process ends with status 0
Raises_swallowed(at) == Ends(at, 0)

\* an exception nobody catches: a traceback, and exit status 1
Raises(at) == Ends(at, 1)

Continues(to) ==
    /\ pc' = to
    /\ UNCHANGED <<exit_at, exit_status>>

\* what the run reported, in the words of the specification's RunOutcome
Outcome ==
    CASE exit_at = "no_change_return" -> "NoChange"
      [] exit_at = "limit_exit" -> "LimitExceeded"
      [] exit_at = "dry_run_exit" -> "DryRun"
      [] exit_at = "main_end" -> "Applied"
      [] exit_at = "no_token_exit" ->
            IF message = "alert" THEN "LimitExceeded" ELSE "Applied"
      [] exit_at \in {"fetch_raised", "extract_raised", "read_raised",
                      "revoke_raised", "authorize_raised"} -> "Error"
      [] OTHER -> "Running"

\* ------------------------------------------------------- fetch_ip_ranges
fetch_ip_ranges ==
    /\ pc = "fetch"
    /\ \/ /\ data' = feed
          /\ Continues("extract")
       \/ /\ Raises("fetch_raised")
          /\ UNCHANGED data
    /\ UNCHANGED <<config, sg, before_cidrs, after_cidrs, current_cidrs, to_add,
                   to_remove, message, calls>>

\* ------------------------------------------ extract_bitbucket_egress_ipv4
\* data.get("items", [])
Items(d) == IF d.has_items THEN d.items ELSE <<>>

\* the condition of the list comprehension, with item.get(key, default)
Matches(item) ==
    /\ "product" \in item.has /\ "bitbucket" \in item.product
    /\ "direction" \in item.has /\ "egress" \in item.direction
    /\ "cidr" \in item.has => ~HasColon(item.cidr)

\* item["cidr"] of an item without the key
RaisesKeyError(d) ==
    LET items == Items(d)
    IN \E i \in DOMAIN items : Matches(items[i]) /\ "cidr" \notin items[i].has

FilteredCidrs(d) ==
    LET items == SelectSeq(Items(d), Matches)
    IN Tuple([i \in DOMAIN items |-> items[i].cidr])

RaisesValueError(d) ==
    LET cidrs == FilteredCidrs(d)
    IN \E i \in DOMAIN cidrs : ~IsValidNetwork(cidrs[i])

CollapsedCidrs(cidrs) ==
    LET cidr_objs == Tuple([i \in DOMAIN cidrs |-> ip_network(cidrs[i])])
        collapsed == collapse_addresses(cidr_objs)
        key == Tuple([i \in DOMAIN collapsed |-> NetKey(collapsed[i])])
        sorted == Sorted(collapsed, key)
    IN Tuple([i \in DOMAIN sorted |-> str(sorted[i])])

extract_bitbucket_egress_ipv4 ==
    /\ pc = "extract"
    /\ IF RaisesKeyError(data) \/ RaisesValueError(data)
       THEN /\ Raises("extract_raised")
            /\ UNCHANGED <<before_cidrs, after_cidrs>>
       ELSE /\ before_cidrs' = FilteredCidrs(data)
            /\ after_cidrs' = CollapsedCidrs(FilteredCidrs(data))
            /\ Continues("read")
    /\ UNCHANGED <<config, sg, data, current_cidrs, to_add, to_remove, message, calls>>

\* -------------------------------------------------- get_sg_ingress_rules
RECURSIVE Rules(_)
Rules(perms) ==
    IF perms = <<>> THEN <<>>
    ELSE LET perm == Head(perms)
         IN (IF perm.IpProtocol = "tcp" /\ perm.FromPort = AWS_SG_RULE_PORT
             THEN SetToSeq({<<CidrKey(r), r>> : r \in perm.IpRanges}) ELSE <<>>)
            \o Rules(Tail(perms))

SgIngressRules(perms) ==
    LET cidrs == Rules(perms)
    IN Sorted(cidrs, Tuple([i \in DOMAIN cidrs |-> CidrKey(cidrs[i])]))

get_sg_ingress_rules ==
    /\ pc = "read"
    /\ \/ /\ current_cidrs' = SgIngressRules(sg)
          /\ Continues("check")
       \/ /\ Raises("read_raised")
          /\ UNCHANGED current_cidrs
    /\ UNCHANGED <<config, sg, data, before_cidrs, after_cidrs, to_add, to_remove,
                   message, calls>>

\* ------------------------------------------------- main, lines 175 to 192
OverLimit_off_by_one(after) == Len(after) > AWS_SG_RULE_LIMIT + 1

OverLimit(after) == Len(after) > AWS_SG_RULE_LIMIT

AlertsOnLimit_always(dry_run) == TRUE

AlertsOnLimit(dry_run) == ~dry_run

check_changes ==
    /\ pc = "check"
    /\ IF after_cidrs = current_cidrs
       THEN /\ Ends("no_change_return", 0)
            /\ UNCHANGED message
       ELSE IF OverLimit(after_cidrs)
       THEN IF AlertsOnLimit(DRY_RUN)
            THEN /\ message' = "alert"
                 /\ Continues("send")
            ELSE /\ Ends("limit_exit", SysExitStatus(<<1>>))
                 /\ UNCHANGED message
       ELSE /\ Continues("diff")
            /\ UNCHANGED message
    /\ UNCHANGED <<config, sg, data, before_cidrs, after_cidrs, current_cidrs, to_add,
                   to_remove, calls>>

\* ---------------------------------------------- replace_sg_ingress_rules
ToRemove_all(current, desired) == current

ToRemove(current, desired) == current \ desired

ToAdd_all(current, desired) == desired

ToAdd(current, desired) == desired \ current

\* lines 76 to 84
diff_rules ==
    /\ pc = "diff"
    /\ to_add' = ToAdd(Range(current_cidrs), Range(after_cidrs))
    /\ to_remove' = ToRemove(Range(current_cidrs), Range(after_cidrs))
    /\ IF to_add' = {} /\ to_remove' = {}
       THEN /\ message' = "success"
            /\ Continues("send")
       ELSE /\ Continues("revoke")
            /\ UNCHANGED message
    /\ UNCHANGED <<config, sg, data, before_cidrs, after_cidrs, current_cidrs, calls>>

\* the rule both payloads name: tcp, FromPort = ToPort = AWS_SG_RULE_PORT
IsPayloadRule(perm) ==
    /\ perm.IpProtocol = "tcp"
    /\ perm.FromPort = AWS_SG_RULE_PORT
    /\ perm.ToPort = AWS_SG_RULE_PORT

\* a revoke that takes out the whole rule the payload names
Revoked_whole_rule(perms, cidrs) == SelectSeq(perms, LAMBDA p : ~IsPayloadRule(p))

\* EC2 after a revoke_security_group_ingress that succeeds
Revoked(perms, cidrs) ==
    NonEmptyPerms(Tuple([i \in DOMAIN perms |->
        IF IsPayloadRule(perms[i]) THEN [perms[i] EXCEPT !.IpRanges = @ \ cidrs]
        ELSE perms[i]]))

\* EC2 rejects an authorize of a rule it holds (InvalidPermission.Duplicate)
IsDuplicate(perms, cidrs) ==
    \E i \in DOMAIN perms : IsPayloadRule(perms[i]) /\ perms[i].IpRanges \cap cidrs # {}

\* EC2 after an authorize_security_group_ingress that succeeds
Authorized(perms, cidrs) ==
    IF \E i \in DOMAIN perms : IsPayloadRule(perms[i])
    THEN Tuple([i \in DOMAIN perms |->
            IF IsPayloadRule(perms[i]) THEN [perms[i] EXCEPT !.IpRanges = @ \cup cidrs]
            ELSE perms[i]])
    ELSE Append(perms, Perm("tcp", AWS_SG_RULE_PORT, AWS_SG_RULE_PORT, cidrs))

\* a call of EC2: op is "revoke" or "authorize", cidrs the CidrIp of its
\* payload, ok FALSE iff the call raised
Call(op, cidrs, ok) == [op |-> op, cidrs |-> cidrs, ok |-> ok, text |-> "", posted |-> TRUE]

\* a call of send_slack_alert(text): posted iff the request to Slack was made,
\* ok iff Slack answered ok
Notification(text, posted, ok) ==
    [op |-> "notify", cidrs |-> {}, ok |-> ok, text |-> text, posted |-> posted]

\* the guard of a mutation call: lines 86 and 90, lines 100 and 104
IssuesCall_in_dry_run(cidrs, dry_run) == cidrs # {}

IssuesCall(cidrs, dry_run) == cidrs # {} /\ ~dry_run

\* lines 86 to 98
revoke_rules ==
    /\ pc = "revoke"
    /\ IF IssuesCall(to_remove, DRY_RUN)
       THEN \/ /\ calls' = Append(calls, Call("revoke", to_remove, TRUE))
               /\ sg' = Revoked(sg, to_remove)
               /\ Continues("authorize")
            \/ /\ calls' = Append(calls, Call("revoke", to_remove, FALSE))
               /\ Raises("revoke_raised")
               /\ UNCHANGED sg
       ELSE /\ Continues("authorize")
            /\ UNCHANGED <<sg, calls>>
    /\ UNCHANGED <<config, locals>>

\* after line 112: lines 114 to 116, and the return to main, lines 197 to 203
AfterAuthorize ==
    IF DRY_RUN
    THEN /\ Ends("dry_run_exit", SysExitStatus(<<>>))
         /\ UNCHANGED message
    ELSE /\ message' = "success"
         /\ Continues("send")

\* lines 100 to 116
authorize_rules ==
    /\ pc = "authorize"
    /\ IF IssuesCall(to_add, DRY_RUN)
       THEN \/ /\ ~IsDuplicate(sg, to_add)
               /\ calls' = Append(calls, Call("authorize", to_add, TRUE))
               /\ sg' = Authorized(sg, to_add)
               /\ AfterAuthorize
            \/ /\ calls' = Append(calls, Call("authorize", to_add, FALSE))
               /\ Raises("authorize_raised")
               /\ UNCHANGED <<sg, message>>
       ELSE /\ AfterAuthorize
            /\ UNCHANGED <<sg, calls>>
    /\ UNCHANGED <<config, data, before_cidrs, after_cidrs, current_cidrs, to_add,
                   to_remove>>

\* ------------------------------------------------------ send_slack_alert
\* TRUE iff send_slack_alert ends the process instead of returning
SlackExits_on_failure(token, delivered) == ~token \/ ~delivered

SlackExits(token, delivered) == ~token

\* send_slack_alert(message) and what main does when it returns: sys.exit(1)
\* after the alert (line 192), the end of main after the success message
send_slack_alert ==
    /\ pc = "send"
    /\ \E delivered \in BOOLEAN :
        /\ calls' = Append(calls, Notification(message, SLACK_BOT_TOKEN,
                                                SLACK_BOT_TOKEN /\ delivered))
        /\ IF SlackExits(SLACK_BOT_TOKEN, delivered)
           THEN Ends("no_token_exit", SysExitStatus(<<1>>))
           ELSE IF message = "alert"
                THEN Ends("limit_exit", SysExitStatus(<<1>>))
                ELSE Ends("main_end", 0)
    /\ UNCHANGED <<config, sg, locals>>

\* ------------------------------------------------------------ the script
main ==
    \/ fetch_ip_ranges
    \/ extract_bitbucket_egress_ipv4
    \/ get_sg_ingress_rules
    \/ check_changes
    \/ diff_rules
    \/ revoke_rules
    \/ authorize_rules
    \/ send_slack_alert

Next == main

Spec == Init /\ [][Next]_vars

\* the script is started again (the job runs on a schedule) on the same feed
\* and configuration, and on the security group as the last run left it
run_again ==
    /\ pc = "done"
    /\ prev_exit' = exit_at
    /\ prev_added' = \E i \in DOMAIN calls : calls[i].op = "authorize" /\ calls[i].ok
    /\ prev_before_cidrs' = before_cidrs
    /\ prev_after_cidrs' = after_cidrs
    /\ pc' = "fetch"
    /\ data' = NoData
    /\ before_cidrs' = <<>>
    /\ after_cidrs' = <<>>
    /\ current_cidrs' = <<>>
    /\ to_add' = {}
    /\ to_remove' = {}
    /\ message' = ""
    /\ calls' = <<>>
    /\ exit_at' = ""
    /\ exit_status' = -1
    /\ UNCHANGED <<feed, sg, DRY_RUN, SLACK_BOT_TOKEN>>

NextRuns == main \/ run_again

SpecRuns == Init /\ [][NextRuns]_vars


\* ------------------------------------- the filter on feeds of a small pool
\* hosts that follow one another, the networks they merge into, the sibling
\* of the largest of them, and an address with no prefix length
CollapsePool ==
    { Host(0), Host(1), Host(2), Host(3),
      Cidr("prefix", 0, AddrBits - 1), Cidr("prefix", 2, AddrBits - 1),
      Cidr("prefix", 0, AddrBits - 2), Cidr("prefix", 4, AddrBits - 2),
      Cidr("bare", Far, 0) }

\* a feed whose items are the CIDRs cidrs, all of them Bitbucket egress
FeedOf(cidrs) ==
    [has_items |-> TRUE,
     items |-> Tuple([i \in DOMAIN cidrs |-> Item(cidrs[i], {"bitbucket"}, {"egress"})])]

CollapseFeeds == {FeedOf(cidrs) : cidrs \in SeqsUpTo(CollapsePool, MaxLen)}

InitCollapse ==
    /\ feed \in CollapseFeeds
    /\ sg = <<>>
    /\ DRY_RUN = FALSE
    /\ SLACK_BOT_TOKEN = TRUE
    /\ NoPrevious
    /\ StartOfMain

\* the script is started again on a feed that serves, as raw input, the list
\* extract_bitbucket_egress_ipv4 returned
run_on_output ==
    /\ pc = "read"
    /\ prev_exit = ""
    /\ feed' = FeedOf(after_cidrs)
    /\ prev_exit' = "extract_returned"
    /\ prev_before_cidrs' = before_cidrs
    /\ prev_after_cidrs' = after_cidrs
    /\ pc' = "fetch"
    /\ data' = NoData
    /\ before_cidrs' = <<>>
    /\ after_cidrs' = <<>>
    /\ UNCHANGED <<sg, DRY_RUN, SLACK_BOT_TOKEN, prev_added, current_cidrs, to_add,
                   to_remove, message, calls, exit_at, exit_status>>

NextCollapse ==
    \/ fetch_ip_ranges
    \/ extract_bitbucket_egress_ipv4
    \/ run_on_output

SpecCollapse == InitCollapse /\ [][NextCollapse]_vars

\* ------------------------------------------------------------ properties
Desired == Range(after_cidrs)
Current == Range(current_cidrs)

RevokeCalls == {i \in DOMAIN calls : calls[i].op = "revoke"}
AuthorizeCalls == {i \in DOMAIN calls : calls[i].op = "authorize"}
MutationCalls == RevokeCalls \cup AuthorizeCalls
\* the calls of send_slack_alert, and those of them that reached Slack
NotifyCalls == {i \in DOMAIN calls : calls[i].op = "notify"}
PostedCalls == {i \in NotifyCalls : calls[i].posted}

Finished == pc = "done"

\* the feed was fetched and filtered and the security group was read
ReadsDone ==
    \/ pc \in {"check", "diff", "revoke", "authorize", "send"}
    \/ pc = "done" /\ exit_at \notin {"fetch_raised", "extract_raised", "read_raised"}

\* replace_sg_ingress_rules is past its revoke step, past its authorize step
PastRevoke ==
    \/ pc = "authorize"
    \/ pc = "send" /\ message = "success"
    \/ pc = "done" /\ exit_at \in {"authorize_raised", "main_end", "dry_run_exit"}
    \/ pc = "done" /\ exit_at = "no_token_exit" /\ message = "success"

PastAuthorize ==
    \/ pc = "send" /\ message = "success"
    \/ pc = "done" /\ exit_at \in {"authorize_raised", "main_end", "dry_run_exit"}
    \/ pc = "done" /\ exit_at = "no_token_exit" /\ message = "success"

\* C1. Limit gate: whenever the collapsed desired list has more entries than
\* AWS_SG_RULE_LIMIT, the run has issued no revoke and no authorize call,
\* dry-run or not, whatever the security group holds.
C1_LimitGate ==
    Len(after_cidrs) > AWS_SG_RULE_LIMIT => MutationCalls = {}

\* a run that is not a dry run ended on the limit, with rules to add
C1_Witness ==
    /\ Finished /\ ~DRY_RUN
    /\ Len(after_cidrs) > AWS_SG_RULE_LIMIT
    /\ Desired \ Current # {}
    /\ exit_at = "limit_exit"

\* C2. Dry run: a run with DRY_RUN set issues no revoke and no authorize call;
\* when its diff is not empty and the desired list is within the limit it ends
\* with outcome DryRun and without a call of send_slack_alert.
C2_DryRun ==
    DRY_RUN =>
        /\ MutationCalls = {}
        /\ (Finished /\ ReadsDone /\ Desired # Current
                /\ Len(after_cidrs) <= AWS_SG_RULE_LIMIT)
           => (Outcome = "DryRun" /\ NotifyCalls = {})

\* a dry run ended with rules to add and rules to remove
C2_Witness ==
    /\ Finished /\ DRY_RUN
    /\ exit_at = "dry_run_exit"
    /\ Desired \ Current # {}
    /\ Current \ Desired # {}

\* C3. Mutation order and batching: a run issues at most one revoke and at most
\* one authorize call; a revoke call carries all of toRemove = Current \ Desired
\* and an authorize call all of toAdd = Desired \ Current, neither of them
\* empty; a revoke call comes before the authorize call, and an authorize call
\* is issued only after the revoke call when toRemove is not empty; in a run
\* that is not a dry run, once replace_sg_ingress_rules is past its revoke
\* step the revoke call was issued iff toRemove is not empty, and once it is
\* past its authorize step the authorize call was issued iff toAdd is not empty.
C3_MutationOrder ==
    /\ Cardinality(RevokeCalls) <= 1
    /\ Cardinality(AuthorizeCalls) <= 1
    /\ \A i \in RevokeCalls :
        calls[i].cidrs = Current \ Desired /\ calls[i].cidrs # {}
    /\ \A j \in AuthorizeCalls :
        /\ calls[j].cidrs = Desired \ Current /\ calls[j].cidrs # {}
        /\ \A i \in RevokeCalls : i < j
        /\ Current \ Desired # {} => RevokeCalls # {}
    /\ (~DRY_RUN /\ PastRevoke) => (RevokeCalls # {} <=> Current \ Desired # {})
    /\ (~DRY_RUN /\ PastAuthorize) => (AuthorizeCalls # {} <=> Desired \ Current # {})

\* a run ended after a revoke call and an authorize call that both succeeded
C3_Witness ==
    /\ Finished /\ exit_at = "main_end"
    /\ \E i \in RevokeCalls, j \in AuthorizeCalls :
        calls[i].ok /\ calls[j].ok /\ calls[i].cidrs # calls[j].cidrs

\* C4. No-change detection is order-insensitive: in a run that read a security
\* group whose rules are, as a set, the desired set, the run ends with outcome
\* NoChange and exit status 0 and issues no revoke and no authorize call.
C4_NoChangeIsOrderInsensitive ==
    (Finished /\ ReadsDone /\ Desired = Current)
        => (Outcome = "NoChange" /\ exit_status = 0 /\ MutationCalls = {})

\* C5. No notification on NoChange: in a run in which toAdd and toRemove are
\* both empty, send_slack_alert is not called and the run does not report that
\* it updated the security group.
C5_NoNotificationOnNoChange ==
    (Finished /\ ReadsDone /\ Desired \ Current = {} /\ Current \ Desired = {})
        => (NotifyCalls = {} /\ Outcome # "Applied")

\* C6. Idempotence across runs: a run that is not a dry run, that follows a run
\* that added rules to the security group and ended Applied, that fetched the
\* same feed and read the security group as that run left it, and in which no
\* call raised, ends with outcome NoChange, issues no revoke and no authorize
\* call and does not call send_slack_alert.
C6_SecondRunIsNoChange ==
    (/\ prev_exit = "main_end" /\ prev_added
     /\ ~DRY_RUN /\ Finished /\ ReadsDone
     /\ \A i \in MutationCalls : calls[i].ok)
        => (Outcome = "NoChange" /\ MutationCalls = {} /\ NotifyCalls = {})

\* C7. Limit exceeded: a run whose desired list exceeds the limit and is not the
\* current list ends with outcome LimitExceeded and a non-zero exit status; when
\* it is not a dry run send_slack_alert is called exactly once, with the alert,
\* and at most one request is made to Slack; in a dry run it is not called; it
\* is never called with the success message.
C7_LimitExceeded ==
    (Finished /\ ReadsDone /\ Len(after_cidrs) > AWS_SG_RULE_LIMIT
        /\ after_cidrs # current_cidrs)
    => /\ Outcome = "LimitExceeded"
       /\ exit_status # 0
       /\ ~DRY_RUN => Cardinality(NotifyCalls) = 1
       /\ DRY_RUN => NotifyCalls = {}
       /\ \A i \in NotifyCalls : calls[i].text = "alert"

\* a dry run ended on the limit with no call of send_slack_alert
C7_Witness ==
    /\ Finished /\ DRY_RUN
    /\ Len(after_cidrs) > AWS_SG_RULE_LIMIT
    /\ Desired # Current
    /\ exit_status = 1

\* C8, as the specification states it: a dry run that computed a diff that is
\* not empty ends with a status that is neither 0, the status of success and of
\* no change, nor 1, the status of the errors.
C8_DryRunStatusIsDistinct ==
    (Finished /\ exit_at = "dry_run_exit") => exit_status \notin {0, 1}

\* C8, amended: a dry run whose diff is not empty and whose desired list is
\* within the limit ends through sys.exit() with exit status 0, the status of
\* success and of no change.
C8_DryRunStatusIsZero ==
    (Finished /\ DRY_RUN /\ ReadsDone /\ Desired # Current
        /\ Len(after_cidrs) <= AWS_SG_RULE_LIMIT)
    => (exit_at = "dry_run_exit" /\ exit_status = 0)

\* a dry run ended with rules to add only
C8_Witness ==
    /\ Finished /\ DRY_RUN /\ exit_at = "dry_run_exit"
    /\ Desired \ Current # {}
    /\ Current \ Desired = {}

\* a kept item of the feed whose CIDR has a host bit set
HasHostBits(item) ==
    /\ Matches(item)
    /\ "cidr" \in item.has
    /\ item.cidr.form = "prefix"
    /\ item.cidr.addr % Pow2(AddrBits - item.cidr.plen) # 0

\* C9. Fatal errors before the apply step: a run in which the fetch raised, the
\* filter or ip_network raised, or the read of the security group raised ends
\* with a non-zero status, with no revoke call, no authorize call and no call of
\* send_slack_alert; and a run that fetched a feed with a kept CIDR that has a
\* host bit set does not get past extract_bitbucket_egress_ipv4.
C9_FatalBeforeApply ==
    /\ (Finished /\ exit_at \in {"fetch_raised", "extract_raised", "read_raised"})
        => (exit_status # 0 /\ MutationCalls = {} /\ NotifyCalls = {})
    /\ (\E i \in DOMAIN Items(data) : HasHostBits(Items(data)[i]))
        => (pc = "extract" \/ (Finished /\ exit_at = "extract_raised"))

\* a run ended in extract_bitbucket_egress_ipv4 on a CIDR with a host bit set
C9_Witness ==
    /\ Finished /\ exit_at = "extract_raised"
    /\ \E i \in DOMAIN Items(data) : HasHostBits(Items(data)[i])
    /\ sg # <<>>

\* C10, as the specification states it: send_slack_alert never changes how the
\* run ends; a run whose mutation calls all succeeded and that called it with
\* the success message ends Applied with exit status 0.
C10_NotificationFailureIsNotFatal ==
    (/\ Finished
     /\ MutationCalls # {}
     /\ \A i \in MutationCalls : calls[i].ok
     /\ \E i \in NotifyCalls : calls[i].text = "success")
        => (Outcome = "Applied" /\ exit_status = 0)

\* C10, amended: with SLACK_BOT_TOKEN set, a run that called send_slack_alert
\* ends the same way whether or not Slack accepted the message: Applied with
\* exit status 0 after the success message, LimitExceeded with exit status 1
\* after the alert; with SLACK_BOT_TOKEN not set send_slack_alert makes no
\* request and ends the run with exit status 1.
C10_NotificationFailure ==
    (Finished /\ NotifyCalls # {}) =>
        IF SLACK_BOT_TOKEN
        THEN \A i \in NotifyCalls :
                /\ calls[i].posted
                /\ calls[i].text = "success" => (exit_at = "main_end" /\ exit_status = 0)
                /\ calls[i].text = "alert" => (exit_at = "limit_exit" /\ exit_status = 1)
        ELSE /\ exit_at = "no_token_exit" /\ exit_status = 1
             /\ PostedCalls = {}

\* a run ended Applied with exit status 0 though Slack refused the message
C10_Witness ==
    /\ Finished /\ SLACK_BOT_TOKEN
    /\ \E i \in NotifyCalls : calls[i].posted /\ ~calls[i].ok /\ calls[i].text = "success"
    /\ MutationCalls # {}
    /\ exit_status = 0

\* extract_bitbucket_egress_ipv4 returned
ExtractDone ==
    \/ pc \in {"read", "check", "diff", "revoke", "authorize", "send"}
    \/ pc = "done" /\ exit_at \notin {"fetch_raised", "extract_raised"}

\* an entry the filter is to keep: it holds the three fields, its product tags
\* contain 'bitbucket', its direction tags 'egress', and its CIDR has no ':'
KeptEntry(item) ==
    /\ {"cidr", "product", "direction"} \subseteq item.has
    /\ "bitbucket" \in item.product
    /\ "egress" \in item.direction
    /\ ~HasColon(item.cidr)

\* C11. Tolerant feed filtering: an entry of the feed that lacks one of cidr,
\* product, direction raises no error (extract_bitbucket_egress_ipv4 raises only
\* on a kept entry whose CIDR is malformed), and the filtered list is the CIDRs
\* of the entries that hold the three fields with 'bitbucket' among the product
\* tags, 'egress' among the direction tags and no ':' in the CIDR, in the order
\* of the feed.
C11_TolerantFiltering ==
    LET kept == SelectSeq(Items(data), KeptEntry)
    IN /\ (Finished /\ exit_at = "extract_raised")
            => \E i \in DOMAIN kept : ~IsValidNetwork(kept[i].cidr)
       /\ ExtractDone
            => before_cidrs = Tuple([i \in DOMAIN kept |-> kept[i].cidr])

\* lines 76 to 80 have run: to_add and to_remove hold the diff
DiffDone ==
    \/ pc \in {"revoke", "authorize"}
    \/ message = "success"
    \/ exit_at \in {"revoke_raised", "authorize_raised", "dry_run_exit"}

\* the addresses of the network a CIDR string names
Addresses(s) == ip_network(s).addr .. broadcast_address(ip_network(s))

\* C12. Diff correctness: once replace_sg_ingress_rules has computed its diff,
\* to_add is Desired \ Current and to_remove is Current \ Desired under equality
\* of the CIDR strings, the two are disjoint, and (Current \ to_remove) with
\* to_add is Desired; a current rule that overlaps a desired one without being
\* one of the desired rules is removed, and a desired one that is not a current
\* rule is added.
C12_DiffCorrectness ==
    DiffDone =>
        /\ to_add = Desired \ Current
        /\ to_remove = Current \ Desired
        /\ to_add \cap to_remove = {}
        /\ (Current \ to_remove) \cup to_add = Desired
        /\ \A c \in Current, d \in Desired :
            (c # d /\ Addresses(c) \cap Addresses(d) # {})
                => /\ c \notin Desired => c \in to_remove
                   /\ d \notin Current => d \in to_add

\* the diff of a desired network against current rules it contains: the
\* network is added and the rules are removed, beside a rule that stays
C12_Witness ==
    /\ DiffDone
    /\ \E d \in to_add : \E c1, c2 \in to_remove :
        /\ c1 # c2
        /\ Addresses(c1) \cup Addresses(c2) \subseteq Addresses(d)
    /\ Current \cap Desired # {}

\* C13. Fatal conditions reach the notifier: a run that ended because the
\* fetch, the filter or ip_network, the read of the security group, the revoke
\* call or the authorize call raised, or because the desired list exceeds the
\* limit, has called send_slack_alert when it is not a dry run, and has not
\* called it when it is one.
C13_FatalReachesNotifier ==
    (/\ Finished
     /\ \/ exit_at \in {"fetch_raised", "extract_raised", "read_raised",
                        "revoke_raised", "authorize_raised"}
        \/ Outcome = "LimitExceeded")
        => /\ ~DRY_RUN => NotifyCalls # {}
           /\ DRY_RUN => NotifyCalls = {}

\* the permutations of 1..n, for the n a feed of SpecCollapse may have
Orderings ==
    [n \in 0..MaxLen |->
        {p \in [1..n -> 1..n] : \A i, j \in 1..n : p[i] = p[j] => i = j}]

\* the network objects of a list of valid CIDR strings
Networks(cidrs) == {ip_network(cidrs[i]) : i \in DOMAIN cidrs}

\* (base address, prefix length) of a before that of b
Before(a, b) == a.addr < b.addr \/ (a.addr = b.addr /\ a.plen < b.plen)

\* C14. Collapse is order-independent and sorted: once the filter has returned,
\* collapsing any permutation of the filtered list gives the very sequence it
\* returned as the collapsed list, and that sequence ascends strictly by (base
\* address, prefix length).
C14_CollapseOrderIndependent ==
    (pc = "read" /\ Len(before_cidrs) <= MaxLen) =>
        /\ \A p \in Orderings[Len(before_cidrs)] :
            CollapsedCidrs(Tuple([i \in DOMAIN before_cidrs |-> before_cidrs[p[i]]]))
                = after_cidrs
        /\ \A i, j \in DOMAIN after_cidrs :
            i < j => Before(ip_network(after_cidrs[i]), ip_network(after_cidrs[j]))

\* the filter returned two networks or more for a list that was not in
\* ascending order and that had networks to merge
C14_Witness ==
    /\ pc = "read" /\ prev_exit = ""
    /\ Len(after_cidrs) >= 2
    /\ Len(after_cidrs) < Len(before_cidrs)
    /\ \E i, j \in DOMAIN before_cidrs :
        i < j /\ Before(ip_network(before_cidrs[j]), ip_network(before_cidrs[i]))
    /\ Networks(after_cidrs) \ Networks(before_cidrs) # {}

\* C15. Collapse is idempotent: when the list the filter returned is served as
\* the raw input of a next run, the collapsed list of that run holds the same
\* CIDRs as the list that was served.
C15_CollapseIdempotent ==
    (pc = "read" /\ prev_exit = "extract_returned") =>
        /\ before_cidrs = prev_after_cidrs
        /\ Range(after_cidrs) = Range(prev_after_cidrs)

\* the second run returned; the first had merged networks and returned two or
\* more
C15_Witness ==
    /\ pc = "read" /\ prev_exit = "extract_returned"
    /\ Len(prev_after_cidrs) >= 2
    /\ Len(prev_after_cidrs) < Len(prev_before_cidrs)
    /\ Networks(prev_after_cidrs) \ Networks(prev_before_cidrs) # {}
    /\ after_cidrs # <<>>

\* the addresses of a network object
NetAddresses(n) == n.addr .. (n.addr + Pow2(AddrBits - n.plen) - 1)

\* the two halves of one block of the next shorter prefix
Siblings(a, b) ==
    /\ a # b
    /\ a.plen = b.plen
    /\ a.plen > 0
    /\ a.addr \div Pow2(AddrBits - a.plen + 1) = b.addr \div Pow2(AddrBits - b.plen + 1)

\* C20. Collapse yields the minimal equivalent set: once the filter has
\* returned, the collapsed list covers exactly the addresses the filtered list
\* covers, it names no network twice, none of its networks lies within another,
\* and no two of them are the two halves of a block of the next shorter prefix.
C20_CollapseMinimal ==
    pc = "read" =>
        LET ins == Networks(before_cidrs)
            outs == Networks(after_cidrs)
        IN /\ UNION {NetAddresses(n) : n \in outs} = UNION {NetAddresses(n) : n \in ins}
           /\ Cardinality(outs) = Len(after_cidrs)
           /\ \A a, b \in outs :
                a # b => /\ ~(NetAddresses(a) \subseteq NetAddresses(b))
                         /\ ~Siblings(a, b)

\* the filter returned one network for two sibling halves given beside a
\* network one of them contains
C20_Witness ==
    /\ pc = "read" /\ prev_exit = ""
    /\ Len(after_cidrs) = 1
    /\ \E a, b \in Networks(before_cidrs) : Siblings(a, b)
    /\ \E a, b \in Networks(before_cidrs) :
        a # b /\ NetAddresses(a) \subseteq NetAddresses(b)
    /\ Networks(after_cidrs) \cap Networks(before_cidrs) = {}

\* C16. Partial mutation failure is surfaced, never repaired: a revoke or
\* authorize call that raised is the last call of the run, of any kind: after a
\* failed revoke no authorize call is issued, after a failed authorize no
\* revoke or authorize call follows to put back what the revoke took out, and
\* send_slack_alert is not called; the run has ended, with a non-zero status.
C16_PartialFailure ==
    \A i \in MutationCalls :
        ~calls[i].ok =>
            /\ i = Len(calls)
            /\ NotifyCalls = {}
            /\ calls[i].op = "revoke" => AuthorizeCalls = {}
            /\ calls[i].op = "authorize" => Cardinality(RevokeCalls) <= 1
            /\ Finished
            /\ exit_status # 0
            /\ Outcome = "Error"

\* the authorize call raised after a revoke call that succeeded: the rules
\* that were revoked are out of the managed rule, and the rules to add are not
\* in it
C16_Witness ==
    /\ Finished /\ exit_at = "authorize_raised"
    /\ \E i \in RevokeCalls, j \in AuthorizeCalls :
        /\ calls[i].ok /\ ~calls[j].ok
        /\ \A k \in DOMAIN sg :
            IsPayloadRule(sg[k])
                => sg[k].IpRanges \cap (calls[i].cidrs \cup calls[j].cidrs) = {}
    /\ \E k \in DOMAIN sg : IsPayloadRule(sg[k])

\* the rules get_sg_ingress_rules takes: tcp, FromPort = AWS_SG_RULE_PORT
ReadPerms(perms) ==
    {k \in DOMAIN perms :
        perms[k].IpProtocol = "tcp" /\ perms[k].FromPort = AWS_SG_RULE_PORT}

\* the CIDRs get_sg_ingress_rules would read from the security group now, and
\* how many it would read
InFirewall == UNION {sg[k].IpRanges : k \in ReadPerms(sg)}

RECURSIVE CountRules(_, _)
CountRules(perms, ks) ==
    IF ks = {} THEN 0
    ELSE LET k == CHOOSE x \in ks : TRUE
         IN Cardinality(perms[k].IpRanges) + CountRules(perms, ks \ {k})

RulesInFirewall == CountRules(sg, ReadPerms(sg))

\* C17. Post-state of a successful apply: when a run that is not a dry run has
\* ended Applied with every revoke and authorize call it issued having
\* succeeded, the tcp/443 CIDRs of the security group, as get_sg_ingress_rules
\* reads them, are the desired set.
C17_PostStateIsDesired ==
    (/\ Finished /\ ~DRY_RUN
     /\ Outcome = "Applied"
     /\ \A i \in MutationCalls : calls[i].ok)
        => InFirewall = Desired

\* C18. Rule count stays within the limit: in a run that read at most
\* AWS_SG_RULE_LIMIT tcp/443 rules from the security group, the security group
\* holds at most AWS_SG_RULE_LIMIT tcp/443 rules, counted as
\* get_sg_ingress_rules counts them, in every state of the run from the read
\* on: before the revoke call, between the two calls, after the authorize call
\* and after a call that raised.
C18_CountWithinLimit ==
    (ReadsDone /\ Len(current_cidrs) <= AWS_SG_RULE_LIMIT)
        => RulesInFirewall <= AWS_SG_RULE_LIMIT

\* the rules of the security group that the payloads do not name: those of
\* another protocol, another port or a port range
OtherPerms(perms) == {perms[k] : k \in {i \in DOMAIN perms : ~IsPayloadRule(perms[i])}}

\* C19. Unchanged rules are preserved: in every state of a run every CIDR of a
\* revoke call is a current rule that is not desired, every CIDR of an
\* authorize call is a desired rule that is not current, a CIDR that is both
\* current and desired is in no call and is in the security group from the
\* read on; and no step of the run changes a rule of the security group other
\* than the tcp rule of port AWS_SG_RULE_PORT that the payloads name.
C19_UnchangedRulesPreserved ==
    /\ [](/\ \A i \in RevokeCalls : calls[i].cidrs \subseteq Current \ Desired
          /\ \A j \in AuthorizeCalls : calls[j].cidrs \subseteq Desired \ Current
          /\ \A i \in MutationCalls : calls[i].cidrs \cap (Current \cap Desired) = {}
          /\ ReadsDone => (Current \cap Desired) \subseteq InFirewall)
    /\ [][OtherPerms(sg') = OtherPerms(sg)]_vars

\* a run revoked and authorized rules of a security group that holds a rule
\* that is current and desired, and rules of another port and of a port range
C19_Witness ==
    /\ Finished /\ exit_at = "main_end"
    /\ \E i \in RevokeCalls, j \in AuthorizeCalls : calls[i].ok /\ calls[j].ok
    /\ Current \cap Desired # {}
    /\ \E p \in OtherPerms(sg) : p.FromPort # AWS_SG_RULE_PORT
    /\ \E p \in OtherPerms(sg) : p.FromPort = AWS_SG_RULE_PORT

====
